---- MODULE Spec2Model ----
(***************************************************************************)
(* A model of main.py, a command-line wrapper around PyDrive: upload,      *)
(* list_files, download_file and the dispatch in main.                     *)
(*                                                                         *)
(* The remote drive is a finite tree of entries.  Identifiers are small    *)
(* integers (ROOT is the root folder, EmptyStr the empty string ""), a     *)
(* local path is the sequence of its components, an optional Python value  *)
(* is <<>> (None) or <<v>>.  Every call into the PyDrive library is        *)
(* recorded in `calls`; a call that goes to the remote service may fail,   *)
(* which raises an exception that nothing in main.py catches.              *)
(***************************************************************************)
EXTENDS Integers, Sequences, FiniteSets, TLC

\* Number of entries of the remote drive besides the root folder.
NumEntries == 3

FOLDER_MIME_TYPE == "application/vnd.google-apps.folder"
FILE_MIME_TYPE == "application/octet-stream"

\* The identifier of the root folder ('root').
ROOT == 0
\* The empty string given as an identifier.
EmptyStr == -1

\* Titles of the remote entries 1, 2, ...: one distinct title per entry.
Titles == <<"a", "b", "c", "d", "e", "f">>

\* The local files the working directory starts with, and their bytes.  No
\* local name is the title of a remote entry, every remote entry has one
\* parent, and titles are single path components.
LocalFiles == (<<"d", "x">> :> "bytes1") @@ (<<"x">> :> "bytes2")
\* A local path at which nothing exists.
MissingFile == <<"y">>
\* The empty string given as a file name.
EmptyPath == <<>>

None == <<>>
Some(v) == <<v>>

\* Python truthiness of an optional string: None and "" are false.
TruthyStr(o) == o # None /\ o[1] # EmptyStr
TruthyPath(o) == o # None /\ o[1] # EmptyPath

\* Number of process launches against the same drive and working directory.
MaxRuns == 2

VARIABLES
    drive,        \* remote entries: id -> metadata and content
    permissions,  \* remote permissions inserted
    files,        \* local files: path -> bytes
    dirs,         \* local directories
    pc,           \* position of the process
    invoked,      \* the calls of main and of the three operations, in order
    lf,           \* list_files: parameters
    result,       \* list_files: returned list
    up,           \* upload: parameters and locals
    stack,        \* download_file: one frame per active call
    calls,        \* PyDrive calls made by this process, in order
    reads,        \* metadata fields read in download_file
    writes,       \* local files written by GetContentFile, in order
    out,          \* lines printed
    err,          \* the exception that ended the process, if any
    uploaded,     \* the last completed upload (file name, bytes, id printed)
    run           \* number of the process launch

vars == <<drive, permissions, files, dirs, pc, invoked, lf, result, up,
          stack, calls, reads, writes, out, err, uploaded, run>>

----------------------------------------------------------------------------
\* The remote drive

Ids == DOMAIN drive
Exists(id) == id \in Ids
IsFolder(id) == drive[id].mimeType = FOLDER_MIME_TYPE

ParentRef(p) == [id |-> p, isRoot |-> (p = ROOT)]

RootEntry ==
    [title |-> "My Drive", mimeType |-> FOLDER_MIME_TYPE, parents |-> <<>>,
     trashed |-> FALSE, content |-> ""]

Entry(i, p, folder, trashed) ==
    [title |-> Titles[i],
     mimeType |-> IF folder THEN FOLDER_MIME_TYPE ELSE FILE_MIME_TYPE,
     parents |-> <<ParentRef(p)>>,
     trashed |-> trashed,
     content |-> IF folder THEN "" ELSE "remote"]

\* Every drive of NumEntries entries: each entry lies in the root or in a
\* folder created before it, and the entries of a trashed folder are trashed.
Drives ==
    { [i \in 0..NumEntries |->
          IF i = ROOT THEN RootEntry ELSE Entry(i, par[i], fol[i], tr[i])] :
      <<par, fol, tr>> \in
        { t \in [1..NumEntries -> 0..(NumEntries - 1)]
              \X [1..NumEntries -> BOOLEAN]
              \X [1..NumEntries -> BOOLEAN] :
            \A i \in 1..NumEntries :
               /\ t[1][i] < i
               /\ t[1][i] # ROOT => (t[2][t[1][i]] /\ (t[3][t[1][i]] => t[3][i])) } }

Min(S) == CHOOSE m \in S : \A n \in S : m <= n
Max(S) == CHOOSE m \in S : \A n \in S : n <= m

RECURSIVE SortedSeq(_)
SortedSeq(S) == IF S = {} THEN <<>> ELSE <<Min(S)>> \o SortedSeq(S \ {Min(S)})

\* A GoogleDriveFile object: the identifier it stands for and whether
\* FetchMetadata has been called on it.
Handle(id) == [id |-> id, fetched |-> FALSE]
NoHandle == Handle(EmptyStr)
FetchMetadata(h) == [h EXCEPT !.fetched = TRUE]

\* One PyDrive call: its name, the identifier it is about, whether it succeeded.
Call(op, on, ok) == [op |-> op, on |-> on, ok |-> ok]
\* One read of a metadata field of a GoogleDriveFile object.
Rd(fn, h, field) == [fn |-> fn, id |-> h.id, field |-> field, fetched |-> h.fetched]

----------------------------------------------------------------------------
\* The local file system

exists(path) == path \in DOMAIN files \/ path \in dirs
isdir(path) == path \in dirs
\* os.makedirs: the directory and every missing directory above it.
makedirs(path) == dirs \cup { SubSeq(path, 1, k) : k \in 1..Len(path) }
\* os.path.join of two relative paths.
join(a, b) == a \o b
\* filename.split('/')[-1]
BaseName(path) == path[Len(path)]

----------------------------------------------------------------------------
\* Process state

NoArgs == [list_files |-> None, upload_file |-> None, parent_folder |-> None,
           download_file |-> None]
NoLf == [parent_folder |-> EmptyStr, skip_print |-> FALSE, skip_directory |-> FALSE]
NoUp == [filename |-> EmptyPath, parent_folder |-> None, file_params |-> None,
         id |-> None, content |-> None]

Frame(file_id) ==
    [pc |-> "L71", file |-> Handle(file_id), files_to_dl |-> <<>>, i |-> 1,
     folder |-> NoHandle, folder_name |-> <<>>, filename |-> <<>>]

Init ==
    /\ drive \in Drives
    /\ permissions = {}
    /\ files = LocalFiles
    /\ dirs = {<<"d">>}
    /\ pc = "start"
    /\ invoked = <<>>
    /\ lf = NoLf
    /\ result = None
    /\ up = NoUp
    /\ stack = <<>>
    /\ calls = <<>>
    /\ reads = {}
    /\ writes = <<>>
    /\ out = <<>>
    /\ err = "none"
    /\ uploaded = None
    /\ run = 0

\* Raise, were the exception of a recursive call caught in the caller's loop:
\* only the failing call ends and its caller goes on with the next entry.
RaiseCaughtInLoop(e) ==
    /\ err' = e
    /\ stack' = IF Len(stack) > 1 THEN SubSeq(stack, 1, Len(stack) - 1) ELSE <<>>
    /\ pc' = IF Len(stack) > 1 THEN pc ELSE "crashed"

\* An uncaught exception: the traceback unwinds every frame and the process ends.
Raise(e) ==
    /\ pc' = "crashed"
    /\ err' = e
    /\ stack' = <<>>

\* A new process starts with nothing called, read, written or printed.
Fresh ==
    /\ calls' = <<>>
    /\ reads' = {}
    /\ writes' = <<>>
    /\ result' = None
    /\ err' = "none"
    /\ run' = run + 1
    /\ UNCHANGED <<drive, permissions, files, dirs, uploaded>>

\* The call of one of the three operations with its arguments.
Invoked(fn, a) == [fn |-> fn, a |-> a]

Enter(caller, fn, a) ==
    /\ invoked' = caller \o (IF fn = "none" THEN <<>> ELSE <<Invoked(fn, a)>>)
    /\ pc' = IF fn = "none" THEN "done" ELSE fn
    /\ lf' = IF fn = "list_files" THEN a ELSE NoLf
    /\ up' = IF fn = "upload" THEN [NoUp EXCEPT !.filename = a[1], !.parent_folder = a[2]]
              ELSE NoUp
    /\ stack' = IF fn = "download_file" THEN <<Frame(a)>> ELSE <<>>

----------------------------------------------------------------------------
\* main

ListArgs == {None, Some(EmptyStr), Some(ROOT)}
UploadArgs == {None, Some(EmptyPath), Some(<<"d", "x">>), Some(MissingFile)}
ParentArgs == {None, Some(1)}
DownloadArgs == {None, Some(EmptyStr), Some(1)}
Args == [list_files : ListArgs, upload_file : UploadArgs,
         parent_folder : ParentArgs, download_file : DownloadArgs]

\* Select, were the upload branch tested before the list branch.
SelectUploadFirst(a) ==
    IF TruthyPath(a.upload_file) THEN "upload"
    ELSE IF TruthyStr(a.list_files) THEN "list_files"
    ELSE IF TruthyStr(a.download_file) THEN "download_file"
    ELSE "none"

\* The branch main takes.
Select(a) ==
    IF TruthyStr(a.list_files) THEN "list_files"
    ELSE IF TruthyPath(a.upload_file) THEN "upload"
    ELSE IF TruthyStr(a.download_file) THEN "download_file"
    ELSE "none"

Launch(a) ==
    /\ Fresh
    /\ out' = IF Select(a) = "none" THEN <<"No valid options provided!">> ELSE <<>>
    /\ Enter(<<Invoked("main", a)>>, Select(a),
             CASE Select(a) = "list_files" ->
                    [parent_folder |-> a.list_files[1], skip_print |-> FALSE,
                     skip_directory |-> TRUE]
               [] Select(a) = "upload" -> <<a.upload_file[1], a.parent_folder>>
               [] Select(a) = "download_file" -> a.download_file[1]
               [] OTHER -> None)

Main ==
    /\ pc = "start"
    /\ \E a \in Args : Launch(a)

\* The user runs the program again with -d and the identifier the upload printed.
Relaunch ==
    /\ pc = "done"
    /\ uploaded # None
    /\ run < MaxRuns
    /\ Launch([NoArgs EXCEPT !.download_file = Some(uploaded[1].id)])

----------------------------------------------------------------------------
\* The operations called directly, as functions of the module

\* Identifiers a caller may pass: every entry, and one that does not exist.
CallIds == 0..(NumEntries + 1)

CallListFiles ==
    /\ pc = "start"
    /\ \E parent \in CallIds, skip_print \in BOOLEAN, skip_directory \in BOOLEAN :
          Enter(<<>>, "list_files", [parent_folder |-> parent, skip_print |-> skip_print,
                               skip_directory |-> skip_directory])
    /\ Fresh
    /\ UNCHANGED out

CallUpload ==
    /\ pc = "start"
    /\ \E filename \in DOMAIN LocalFiles \cup {MissingFile, EmptyPath},
          parent \in {None, Some(EmptyStr)} \cup {Some(i) : i \in 1..NumEntries} :
          Enter(<<>>, "upload", <<filename, parent>>)
    /\ Fresh
    /\ UNCHANGED out

CallDownloadFile ==
    /\ pc = "start"
    /\ \E file_id \in CallIds : Enter(<<>>, "download_file", file_id)
    /\ Fresh
    /\ UNCHANGED out

----------------------------------------------------------------------------
\* list_files

\* drive.ListFile({'q': "'<parent>' in parents and trashed=false"}).GetList()
ListFile(parent_folder) ==
    LET hit == { i \in Ids : /\ \E k \in DOMAIN drive[i].parents :
                                   drive[i].parents[k].id = parent_folder
                             /\ ~drive[i].trashed }
        ids == SortedSeq(hit)
    IN  [k \in 1..Len(ids) |-> Handle(ids[k])]

\* The entries the loop of list_files does not skip.
NotSkipped(file_list, skip_directory) ==
    SelectSeq(file_list, LAMBDA h : ~(skip_directory /\ IsFolder(h.id)))

\* Printed, were skip_directory ignored.
PrintedWithFolders(file_list, skip_print, skip_directory) ==
    IF skip_print THEN <<>>
    ELSE [k \in 1..Len(file_list) |->
            <<"Title", drive[file_list[k].id].title, "id", file_list[k].id>>]

\* The lines list_files prints.
Printed(file_list, skip_print, skip_directory) ==
    IF skip_print THEN <<>>
    ELSE LET kept == NotSkipped(file_list, skip_directory)
         IN  [k \in 1..Len(kept) |->
                <<"Title", drive[kept[k].id].title, "id", kept[k].id>>]

\* The fields list_files reads: the MIME type when folders are to be skipped,
\* title and id of what it prints.
ListReads(file_list, skip_print, skip_directory) ==
    { Rd("list_files", file_list[k], "mimeType") :
        k \in {j \in DOMAIN file_list : skip_directory} }
    \cup
    { Rd("list_files", h, f) :
        h \in {file_list[k] : k \in {j \in DOMAIN file_list :
                  ~skip_print /\ ~(skip_directory /\ IsFolder(file_list[j].id))}},
        f \in {"title", "id"} }

\* Returned, were the skipped folders left out of the returned list as well.
ReturnedWithoutSkipped(file_list, skip_print, skip_directory) ==
    SelectSeq(file_list, LAMBDA h : ~(skip_directory /\ IsFolder(h.id)))

\* The value list_files returns.
Returned(file_list, skip_print, skip_directory) == file_list

ListFiles ==
    /\ pc = "list_files"
    /\ \/ /\ Exists(lf.parent_folder)
          /\ LET file_list == ListFile(lf.parent_folder)
             IN  /\ out' = out \o Printed(file_list, lf.skip_print, lf.skip_directory)
                 /\ reads' = reads \cup
                        ListReads(file_list, lf.skip_print, lf.skip_directory)
                 /\ result' = Some(Returned(file_list, lf.skip_print, lf.skip_directory))
          /\ calls' = Append(calls, Call("ListFile", Some(lf.parent_folder), TRUE))
          /\ pc' = "done"
          /\ UNCHANGED <<err, stack>>
       \/ /\ calls' = Append(calls, Call("ListFile", Some(lf.parent_folder), FALSE))
          /\ Raise("remote")
          /\ UNCHANGED <<out, reads, result>>
    /\ UNCHANGED <<drive, permissions, files, dirs, invoked, lf, up, writes,
                   uploaded, run>>

----------------------------------------------------------------------------
\* upload

\* Lines 28-34: the existence check, file_params and drive.CreateFile.
\* UploadAborts, were the existence check left out.
UploadNeverAborts(filename) == FALSE

\* Line 28: upload gives up when nothing exists at the path.
UploadAborts(filename) == ~exists(filename)

UploadStart ==
    /\ pc = "upload"
    /\ IF UploadAborts(up.filename)
       THEN /\ out' = Append(out, <<"Specified filename does not exist!", up.filename>>)
            /\ pc' = "done"
            /\ UNCHANGED <<up, calls>>
       ELSE /\ up' = [up EXCEPT !.file_params = Some(
                        [title |-> BaseName(up.filename),
                         parents |-> IF TruthyStr(up.parent_folder)
                                     THEN <<up.parent_folder[1]>> ELSE <<>>])]
            /\ calls' = Append(calls, Call("CreateFile", None, TRUE))
            /\ pc' = "L35"
            /\ UNCHANGED out
    /\ UNCHANGED <<drive, permissions, files, dirs, invoked, lf, result, stack,
                   reads, writes, err, uploaded, run>>

\* Line 35: file_to_upload.SetContentFile(filename)
UploadSetContentFile ==
    /\ pc = "L35"
    /\ calls' = Append(calls, Call("SetContentFile", None, TRUE))
    /\ IF up.filename \in DOMAIN files
       THEN /\ up' = [up EXCEPT !.content = Some(files[up.filename])]
            /\ pc' = "L36"
            /\ UNCHANGED <<err, stack>>
       ELSE /\ Raise("FileNotFoundError")
            /\ UNCHANGED up
    /\ UNCHANGED <<drive, permissions, files, dirs, invoked, lf, result,
                   reads, writes, out, uploaded, run>>

\* The entry the service creates: under the given parent, or under the root.
NewEntry(file_params, content) ==
    [title |-> file_params.title,
     mimeType |-> FILE_MIME_TYPE,
     parents |-> IF file_params.parents = <<>> THEN <<ParentRef(ROOT)>>
                 ELSE <<ParentRef(file_params.parents[1])>>,
     trashed |-> FALSE,
     content |-> content]

\* The service accepts an upload under an existing folder only.
ParentsOk(file_params) ==
    \A k \in DOMAIN file_params.parents :
        Exists(file_params.parents[k]) /\ IsFolder(file_params.parents[k])

\* Line 36: file_to_upload.Upload(param={"http": http})
UploadUpload ==
    /\ pc = "L36"
    /\ \/ /\ ParentsOk(up.file_params[1])
          /\ LET id == Max(Ids) + 1
             IN  /\ drive' = (id :> NewEntry(up.file_params[1], up.content[1])) @@ drive
                 /\ up' = [up EXCEPT !.id = Some(id)]
                 /\ calls' = Append(calls, Call("Upload", Some(id), TRUE))
          /\ pc' = "L37"
          /\ UNCHANGED <<err, stack>>
       \/ /\ calls' = Append(calls, Call("Upload", None, FALSE))
          /\ Raise("remote")
          /\ UNCHANGED <<drive, up>>
    /\ UNCHANGED <<permissions, files, dirs, invoked, lf, result, reads, writes,
                   out, uploaded, run>>

\* Line 37: file_to_upload.FetchMetadata()
UploadFetchMetadata ==
    /\ pc = "L37"
    /\ \/ /\ calls' = Append(calls, Call("FetchMetadata", up.id, TRUE))
          /\ pc' = "L38"
          /\ UNCHANGED <<err, stack>>
       \/ /\ calls' = Append(calls, Call("FetchMetadata", up.id, FALSE))
          /\ Raise("remote")
    /\ UNCHANGED <<drive, permissions, files, dirs, invoked, lf, result, up,
                   reads, writes, out, uploaded, run>>

\* InsertPermission, were the permission granted only under a parent folder.
InsertPermissionUnderParentOnly(id) ==
    IF TruthyStr(up.parent_folder)
    THEN permissions \cup
            {[id |-> id, type |-> "anyone", value |-> "anyone", role |-> "reader"]}
    ELSE permissions

\* Lines 38-42: the permissions once anyone/anyone/reader is inserted on id.
InsertPermission(id) ==
    permissions \cup
        {[id |-> id, type |-> "anyone", value |-> "anyone", role |-> "reader"]}

\* Lines 38-42: file_to_upload.InsertPermission({...})
UploadInsertPermission ==
    /\ pc = "L38"
    /\ \/ /\ permissions' = InsertPermission(up.id[1])
          /\ calls' = Append(calls, Call("InsertPermission", up.id, TRUE))
          /\ pc' = "L43"
          /\ UNCHANGED <<err, stack>>
       \/ /\ calls' = Append(calls, Call("InsertPermission", up.id, FALSE))
          /\ Raise("remote")
          /\ UNCHANGED permissions
    /\ UNCHANGED <<drive, files, dirs, invoked, lf, result, up, reads, writes,
                   out, uploaded, run>>

\* Lines 43-44: the identifier and the URL are printed.
UploadPrint ==
    /\ pc = "L43"
    /\ out' = out \o << <<"Get it with", up.id[1]>>, <<"URL", up.id[1]>> >>
    /\ uploaded' = Some([filename |-> up.filename, content |-> up.content[1],
                         id |-> up.id[1]])
    /\ pc' = "done"
    /\ UNCHANGED <<drive, permissions, files, dirs, invoked, lf, result, up,
                   stack, calls, reads, writes, err, run>>

----------------------------------------------------------------------------
\* download_file

Top == stack[Len(stack)]
SetTop(f) == [stack EXCEPT ![Len(stack)] = f]

\* Lines 69-76: the target's metadata is fetched; a folder is announced and
\* will be listed, anything else is the only file to download.
DlFetchTarget ==
    /\ pc = "download_file"
    /\ Top.pc = "L71"
    /\ \/ /\ Exists(Top.file.id)
          /\ LET file == FetchMetadata(Top.file)
             IN  IF IsFolder(file.id)
                 THEN /\ reads' = reads \cup {Rd("download_file", file, "mimeType"),
                                              Rd("download_file", file, "title")}
                      /\ out' = Append(out, <<"is a folder, downloading recursively",
                                              drive[file.id].title>>)
                      /\ stack' = SetTop([Top EXCEPT !.file = file, !.pc = "L74"])
                 ELSE /\ reads' = reads \cup {Rd("download_file", file, "mimeType")}
                      /\ out' = out
                      /\ stack' = SetTop([Top EXCEPT !.file = file,
                                             !.files_to_dl = <<file>>, !.pc = "L77"])
          /\ calls' = calls \o <<Call("CreateFile", Some(Top.file.id), TRUE),
                                 Call("FetchMetadata", Some(Top.file.id), TRUE)>>
          /\ UNCHANGED <<pc, err>>
       \/ /\ calls' = calls \o <<Call("CreateFile", Some(Top.file.id), TRUE),
                                 Call("FetchMetadata", Some(Top.file.id), FALSE)>>
          /\ Raise("remote")
          /\ UNCHANGED <<reads, out>>
    /\ UNCHANGED <<drive, permissions, files, dirs, invoked, lf, result, up,
                   writes, uploaded, run>>

\* Line 74: list_files(file_id, skip_print=True, skip_directory=False)
DlListFiles ==
    /\ pc = "download_file"
    /\ Top.pc = "L74"
    /\ \/ /\ LET file_list == ListFile(Top.file.id)
             IN  /\ out' = out \o Printed(file_list, TRUE, FALSE)
                 /\ reads' = reads \cup ListReads(file_list, TRUE, FALSE)
                 /\ stack' = SetTop([Top EXCEPT
                                       !.files_to_dl = Returned(file_list, TRUE, FALSE),
                                       !.pc = "L77"])
          /\ calls' = Append(calls, Call("ListFile", Some(Top.file.id), TRUE))
          /\ UNCHANGED <<pc, err>>
       \/ /\ calls' = Append(calls, Call("ListFile", Some(Top.file.id), FALSE))
          /\ Raise("remote")
          /\ UNCHANGED <<reads, out>>
    /\ UNCHANGED <<drive, permissions, files, dirs, invoked, lf, result, up,
                   writes, uploaded, run>>

\* Line 77, the list is exhausted: download_file returns to its caller.
DlReturn ==
    /\ pc = "download_file"
    /\ Top.pc = "L77"
    /\ Top.i > Len(Top.files_to_dl)
    /\ stack' = SubSeq(stack, 1, Len(stack) - 1)
    /\ pc' = IF Len(stack) = 1 THEN "done" ELSE pc
    /\ UNCHANGED <<drive, permissions, files, dirs, invoked, lf, result, up,
                   calls, reads, writes, out, err, uploaded, run>>

\* FetchDlFile, were line 78 left out.
FetchDlFileSkipped(dl_file) == dl_file

\* Line 78: dl_file.FetchMetadata()
FetchDlFile(dl_file) == FetchMetadata(dl_file)

\* Lines 77-83: the next entry is fetched; a folder is downloaded by a
\* recursive call, for a file the object of its first parent is created.
DlNext ==
    /\ pc = "download_file"
    /\ Top.pc = "L77"
    /\ Top.i <= Len(Top.files_to_dl)
    /\ \/ /\ LET dl_file == FetchDlFile(Top.files_to_dl[Top.i])
                 meta == drive[dl_file.id]
             IN  IF meta.mimeType = FOLDER_MIME_TYPE
                 THEN /\ reads' = reads \cup {Rd("download_file", dl_file, "mimeType"),
                                              Rd("download_file", dl_file, "id")}
                      /\ stack' = Append(
                            SetTop([Top EXCEPT !.files_to_dl[Top.i] = dl_file,
                                               !.i = Top.i + 1]),
                            Frame(dl_file.id))
                      /\ calls' = Append(calls,
                            Call("FetchMetadata", Some(dl_file.id), TRUE))
                 ELSE /\ reads' = reads \cup {Rd("download_file", dl_file, "mimeType"),
                                              Rd("download_file", dl_file, "title"),
                                              Rd("download_file", dl_file, "parents")}
                      /\ stack' = SetTop([Top EXCEPT
                                            !.files_to_dl[Top.i] = dl_file,
                                            !.filename = <<meta.title>>,
                                            !.folder = Handle(meta.parents[1].id),
                                            !.pc = "L84"])
                      /\ calls' = calls \o
                            <<Call("FetchMetadata", Some(dl_file.id), TRUE),
                              Call("CreateFile", Some(meta.parents[1].id), TRUE)>>
          /\ UNCHANGED <<pc, err>>
       \/ /\ calls' = Append(calls,
                Call("FetchMetadata", Some(Top.files_to_dl[Top.i].id), FALSE))
          /\ Raise("remote")
          /\ UNCHANGED reads
    /\ UNCHANGED <<drive, permissions, files, dirs, invoked, lf, result, up,
                   writes, out, uploaded, run>>

\* Lines 84-85: the first parent's metadata is fetched, its title starts folder_name.
DlFetchFolder ==
    /\ pc = "download_file"
    /\ Top.pc = "L84"
    /\ \/ /\ LET folder == FetchMetadata(Top.folder)
             IN  /\ reads' = reads \cup {Rd("download_file", folder, "title")}
                 /\ stack' = SetTop([Top EXCEPT !.folder = folder,
                                        !.folder_name = <<drive[folder.id].title>>,
                                        !.pc = "L86"])
          /\ calls' = Append(calls, Call("FetchMetadata", Some(Top.folder.id), TRUE))
          /\ UNCHANGED <<pc, err>>
       \/ /\ calls' = Append(calls, Call("FetchMetadata", Some(Top.folder.id), FALSE))
          /\ Raise("remote")
          /\ UNCHANGED reads
    /\ UNCHANGED <<drive, permissions, files, dirs, invoked, lf, result, up,
                   writes, out, uploaded, run>>

\* Line 86 on a folder without parents (the root): parents[0] raises IndexError.
DlWalkIndexError ==
    /\ pc = "download_file"
    /\ Top.pc = "L86"
    /\ drive[Top.folder.id].parents = <<>>
    /\ reads' = reads \cup {Rd("download_file", Top.folder, "parents")}
    /\ Raise("IndexError")
    /\ UNCHANGED <<drive, permissions, files, dirs, invoked, lf, result, up,
                   calls, writes, out, uploaded, run>>

\* Lines 86-89: the folder's first parent is not the root; that parent is
\* fetched and its title is put in front of folder_name.
DlWalkUp ==
    /\ pc = "download_file"
    /\ Top.pc = "L86"
    /\ drive[Top.folder.id].parents # <<>>
    /\ ~drive[Top.folder.id].parents[1].isRoot
    /\ LET parent == drive[Top.folder.id].parents[1].id
       IN  \/ /\ LET folder == FetchMetadata(Handle(parent))
                 IN  /\ reads' = reads \cup
                            {Rd("download_file", Top.folder, "parents"),
                             Rd("download_file", folder, "title")}
                     /\ stack' = SetTop([Top EXCEPT !.folder = folder,
                            !.folder_name = join(<<drive[parent].title>>,
                                                 Top.folder_name)])
              /\ calls' = calls \o <<Call("CreateFile", Some(parent), TRUE),
                                     Call("FetchMetadata", Some(parent), TRUE)>>
              /\ UNCHANGED <<pc, err>>
           \/ /\ reads' = reads \cup {Rd("download_file", Top.folder, "parents")}
              /\ calls' = calls \o <<Call("CreateFile", Some(parent), TRUE),
                                     Call("FetchMetadata", Some(parent), FALSE)>>
              /\ Raise("remote")
    /\ UNCHANGED <<drive, permissions, files, dirs, invoked, lf, result, up,
                   writes, out, uploaded, run>>

\* Lines 86, 90-95: the folder's first parent is the root; the directory is
\* made if it is missing and the content is written to folder_name/title.
DlGetContentFile ==
    /\ pc = "download_file"
    /\ Top.pc = "L86"
    /\ drive[Top.folder.id].parents # <<>>
    /\ drive[Top.folder.id].parents[1].isRoot
    /\ LET dl_file == Top.files_to_dl[Top.i]
           filename == join(Top.folder_name, Top.filename)
       IN  /\ reads' = reads \cup {Rd("download_file", Top.folder, "parents")}
           /\ dirs' = IF isdir(Top.folder_name) THEN dirs ELSE makedirs(Top.folder_name)
           /\ \/ /\ files' = (filename :> drive[dl_file.id].content) @@ files
                 /\ writes' = Append(writes, [id |-> dl_file.id, path |-> filename])
                 /\ out' = out \o << <<"Downloading", filename>>,
                                     <<"Downloaded", filename>> >>
                 /\ calls' = Append(calls,
                       Call("GetContentFile", Some(dl_file.id), TRUE))
                 /\ stack' = SetTop([Top EXCEPT !.filename = filename,
                                        !.i = Top.i + 1, !.pc = "L77"])
                 /\ UNCHANGED <<pc, err>>
              \/ /\ out' = Append(out, <<"Downloading", filename>>)
                 /\ calls' = Append(calls,
                       Call("GetContentFile", Some(dl_file.id), FALSE))
                 /\ Raise("remote")
                 /\ UNCHANGED <<files, writes>>
    /\ UNCHANGED <<drive, permissions, invoked, lf, result, up, uploaded, run>>

Next ==
    \/ Main \/ Relaunch \/ CallListFiles \/ CallUpload \/ CallDownloadFile
    \/ ListFiles
    \/ UploadStart \/ UploadSetContentFile \/ UploadUpload \/ UploadFetchMetadata
    \/ UploadInsertPermission \/ UploadPrint
    \/ DlFetchTarget \/ DlListFiles \/ DlReturn \/ DlNext \/ DlFetchFolder
    \/ DlWalkIndexError \/ DlWalkUp \/ DlGetContentFile

Spec == Init /\ [][Next]_vars

----------------------------------------------------------------------------
\* What the properties speak about

\* The operations called in this process: none or one.
Called == IF invoked # <<>> /\ invoked[1].fn = "main" THEN Tail(invoked) ELSE invoked
Running(fn) == Called # <<>> /\ Called[1].fn = fn
FromMain == invoked # <<>> /\ invoked[1].fn = "main"
Halted == pc \in {"done", "crashed"}

\* The folders above an entry, nearest first, the root excluded.
RECURSIVE Ancestors(_)
Ancestors(id) ==
    IF id = ROOT \/ drive[id].parents[1].id = ROOT THEN <<>>
    ELSE <<drive[id].parents[1].id>> \o Ancestors(drive[id].parents[1].id)

RECURSIVE TitlesDown(_)
TitlesDown(anc) ==
    IF anc = <<>> THEN <<>> ELSE TitlesDown(Tail(anc)) \o <<drive[Head(anc)].title>>

\* The titles of the ancestor chain from below the root down, then the own title.
ExpectedPath(id) == TitlesDown(Ancestors(id)) \o <<drive[id].title>>

InFolder(id, folder) ==
    id # ROOT /\ (folder = ROOT \/ \E k \in DOMAIN Ancestors(id) : Ancestors(id)[k] = folder)

\* The non-trashed direct children of a folder.
LiveChildren(parent) ==
    { i \in Ids \ {ROOT} : drive[i].parents[1].id = parent /\ ~drive[i].trashed }

WritesOf(id) == { k \in DOMAIN writes : writes[k].id = id }

\* C1: download_file on a non-folder identifier, when it has ended without a
\* remote failure, has written exactly one local file, at the titles of the
\* ancestor chain (root excluded) joined with the entry's own title.
C1_SingleFileAtAncestorPath ==
    (/\ Running("download_file")
     /\ Halted /\ err # "remote"
     /\ Exists(Called[1].a) /\ ~IsFolder(Called[1].a))
    => /\ Len(writes) = 1
       /\ writes[1] = [id |-> Called[1].a, path |-> ExpectedPath(Called[1].a)]
       /\ ExpectedPath(Called[1].a) \in DOMAIN files
       /\ files[ExpectedPath(Called[1].a)] = drive[Called[1].a].content

\* C2: when download_file on a folder returns, every non-trashed file below it
\* has been written exactly once at its ancestor-title path and every
\* non-trashed folder below it, an empty one included, is a local directory.
C2_FolderTreeMaterialized ==
    (/\ Running("download_file")
     /\ pc = "done"
     /\ IsFolder(Called[1].a))
    => \A d \in Ids :
          (InFolder(d, Called[1].a) /\ ~drive[d].trashed) =>
             IF IsFolder(d)
             THEN ExpectedPath(d) \in dirs
             ELSE /\ Cardinality(WritesOf(d)) = 1
                  /\ \A k \in WritesOf(d) : writes[k].path = ExpectedPath(d)
                  /\ ExpectedPath(d) \in DOMAIN files

\* C3: after upload of a local file and download_file of the identifier it
\* printed, if no remote call failed, the bytes of the uploaded file are at the
\* ancestor titles joined with the file's base name.
C3_RoundTrip ==
    (/\ run >= 2
     /\ Running("download_file")
     /\ Halted /\ err # "remote")
    => LET u == uploaded[1]
           path == TitlesDown(Ancestors(u.id)) \o <<BaseName(u.filename)>>
       IN  /\ path \in DOMAIN files
           /\ files[path] = u.content
           /\ u.content = LocalFiles[u.filename]

\* C4: upload with a path at which nothing exists prints the message, makes no
\* library call, leaves the drive as it was and returns normally.
C4_MissingFileNoRemoteCalls ==
    (/\ Running("upload")
     /\ pc # "upload"
     /\ ~exists(Called[1].a[1]))
    => /\ calls = <<>>
       /\ out = << <<"Specified filename does not exist!", Called[1].a[1]>> >>
       /\ pc = "done" /\ err = "none"
       /\ Ids = 0..NumEntries
       /\ permissions = {}

C4_Witness ==
    /\ Running("upload") /\ FromMain
    /\ pc = "done"
    /\ ~exists(Called[1].a[1])
    /\ Called[1].a[1] = MissingFile
    /\ Len(out) = 1

\* C5: the list list_files returns holds exactly the non-trashed direct
\* children of the parent, folders included, whatever skip_print and
\* skip_directory are; so does the list download_file gets from it.
C5_ReturnedListIsAllLiveChildren ==
    /\ result # None =>
          /\ Len(result[1]) = Cardinality(LiveChildren(lf.parent_folder))
          /\ { result[1][k].id : k \in DOMAIN result[1] } = LiveChildren(lf.parent_folder)
    /\ \A k \in DOMAIN stack :
          (stack[k].pc \notin {"L71", "L74"} /\ IsFolder(stack[k].file.id)) =>
             Len(stack[k].files_to_dl) = Cardinality(LiveChildren(stack[k].file.id))

C5_Witness ==
    /\ result # None
    /\ lf.skip_directory /\ ~lf.skip_print
    /\ \E k \in DOMAIN result[1] : IsFolder(result[1][k].id)
    /\ \E k \in DOMAIN result[1] : ~IsFolder(result[1][k].id)
    /\ \E i \in Ids \ {ROOT} : drive[i].parents[1].id = lf.parent_folder /\ drive[i].trashed

\* C6: list_files with skip_directory true prints no folder; with skip_print
\* false it prints one line, title and id, for each non-trashed non-folder
\* child, and with skip_print true it prints nothing.
C6_SkipDirectoryPrintsNoFolder ==
    (Running("list_files") /\ result # None /\ lf.skip_directory) =>
        LET plain == { i \in LiveChildren(lf.parent_folder) : ~IsFolder(i) }
        IN  IF lf.skip_print THEN out = <<>>
            ELSE /\ Len(out) = Cardinality(plain)
                 /\ { out[k][4] : k \in DOMAIN out } = plain
                 /\ \A k \in DOMAIN out :
                       /\ ~IsFolder(out[k][4])
                       /\ out[k][2] = drive[out[k][4]].title

C6_Witness ==
    /\ Running("list_files") /\ result # None
    /\ lf.skip_directory /\ ~lf.skip_print
    /\ Len(out) = 1
    /\ \E i \in LiveChildren(lf.parent_folder) : IsFolder(i)

\* The operation the flags select when a flag counts as given if present.
ByPresence(a) ==
    IF a.list_files # None THEN "list_files"
    ELSE IF a.upload_file # None THEN "upload"
    ELSE IF a.download_file # None THEN "download_file"
    ELSE "none"

\* The operation the flags select when a flag counts as given only with a
\* value that is not the empty string.
ByNonEmptyValue(a) ==
    IF a.list_files \notin {None, Some(EmptyStr)} THEN "list_files"
    ELSE IF a.upload_file \notin {None, Some(EmptyPath)} THEN "upload"
    ELSE IF a.download_file \notin {None, Some(EmptyStr)} THEN "download_file"
    ELSE "none"

\* What a run of main has done when `chosen` is the operation to act on.
MainActsOn(chosen) ==
    /\ Len(Called) <= 1
    /\ IF chosen = "none"
       THEN /\ Called = <<>>
            /\ out = <<"No valid options provided!">>
            /\ pc = "done" /\ err = "none"
            /\ calls = <<>>
       ELSE /\ Called # <<>>
            /\ Called[1].fn = chosen

\* C7 as stated: for every combination of -l, -u, -p and -d main acts on
\* exactly one operation, list before upload before download, and with none
\* of the three given it prints "No valid options provided!" and ends normally.
C7_OneOperationByFlagGiven ==
    FromMain => MainActsOn(ByPresence(invoked[1].a))

\* C7 amended: the same, a flag counting as given only when its value is not
\* the empty string.
C7_OneOperationByNonEmptyFlag ==
    FromMain =>
        /\ MainActsOn(ByNonEmptyValue(invoked[1].a))
        /\ Running("list_files") => Called[1].a.parent_folder = invoked[1].a.list_files[1]
        /\ Running("upload") =>
              Called[1].a = <<invoked[1].a.upload_file[1], invoked[1].a.parent_folder>>
        /\ Running("download_file") => Called[1].a = invoked[1].a.download_file[1]

C7_Witness ==
    /\ FromMain
    /\ invoked[1].a.list_files = Some(ROOT)
    /\ invoked[1].a.upload_file = Some(<<"d", "x">>)
    /\ invoked[1].a.download_file = Some(1)
    /\ Running("list_files")
    /\ pc = "done"

UploadOrder ==
    <<"CreateFile", "SetContentFile", "Upload", "FetchMetadata", "InsertPermission">>

AnyoneReader(id) == [id |-> id, type |-> "anyone", value |-> "anyone", role |-> "reader"]

\* C8: an upload of an existing file makes its calls in the order CreateFile,
\* SetContentFile, Upload, FetchMetadata, InsertPermission; it creates one
\* remote entry, by the Upload call; when it completes, anyone/reader has been
\* granted on that entry, with or without a parent folder; and nothing is
\* printed before the permission is there.
C8_UploadOrderAndPublicRead ==
    (Running("upload") /\ exists(Called[1].a[1])) =>
        /\ Len(calls) <= Len(UploadOrder)
        /\ \A k \in DOMAIN calls : calls[k].op = UploadOrder[k]
        /\ Cardinality(Ids) = NumEntries + 1 +
              Cardinality({k \in DOMAIN calls : calls[k].op = "Upload" /\ calls[k].ok})
        /\ out # <<>> => AnyoneReader(up.id[1]) \in permissions
        /\ pc = "done" =>
              /\ Len(calls) = Len(UploadOrder)
              /\ \A k \in DOMAIN calls : calls[k].ok
              /\ AnyoneReader(up.id[1]) \in permissions
              /\ out = << <<"Get it with", up.id[1]>>, <<"URL", up.id[1]>> >>
              /\ drive[up.id[1]].content = LocalFiles[Called[1].a[1]]

C8_Witness ==
    /\ Running("upload")
    /\ pc = "done"
    /\ exists(Called[1].a[1])
    /\ up.parent_folder = None
    /\ AnyoneReader(up.id[1]) \in permissions
    /\ Len(out) = 2

\* C9: in download_file every metadata field is read from an object on which
\* FetchMetadata has been called before.
C9_FetchedBeforeRead ==
    Running("download_file") => \A r \in reads : r.fetched

C9_Witness ==
    /\ Running("download_file")
    /\ pc = "done"
    /\ IsFolder(Called[1].a)
    /\ \E k \in DOMAIN writes : Len(writes[k].path) = 3
    /\ \E r \in reads : r.field = "parents" /\ IsFolder(r.id)
    /\ \E r \in reads : r.field = "mimeType" /\ ~IsFolder(r.id)

\* C10: in a download, no call follows a failed call (so it is not retried),
\* a remote failure ends the process at every recursion level with nothing
\* left to do, and what was written before is still on disk.
C10_FailureAbortsWholeDownload ==
    Running("download_file") =>
        /\ \A k \in DOMAIN calls : ~calls[k].ok => k = Len(calls)
        /\ err = "remote" =>
              /\ pc = "crashed"
              /\ stack = <<>>
              /\ ~ENABLED Next
              /\ calls # <<>> /\ ~calls[Len(calls)].ok
        /\ \A k \in DOMAIN writes :
              /\ writes[k].path \in DOMAIN files
              /\ files[writes[k].path] = drive[writes[k].id].content

C10_Witness ==
    /\ Running("download_file")
    /\ err = "remote"
    /\ Len(writes) >= 1
    /\ Cardinality({k \in DOMAIN calls : calls[k].op = "ListFile"}) >= 2
    /\ \A k \in DOMAIN writes : writes[k].path \in DOMAIN files

====
